---- MODULE Spec2Model ----
(***************************************************************************)
(* General Bots browser extension (GeneralBots/botplugin).                 *)
(*                                                                         *)
(* Three JavaScript contexts run in parallel and share chrome.storage.sync *)
(* and the extension's message channels:                                   *)
(*   - the background service worker (src/background.js),                  *)
(*   - the popup (src/popup.js),                                           *)
(*   - the content script on web.whatsapp.com (src/unnamed/part_000).      *)
(* Inside one context the code between two awaits (or callbacks) is one    *)
(* atomic step; steps of different contexts interleave.                    *)
(*                                                                         *)
(* JavaScript objects are functions from their keys to values; a key that  *)
(* is absent is outside the DOMAIN (undefined).  JavaScript strings that   *)
(* the code inspects character by character are sequences of one-character *)
(* strings; opaque strings (tokens, ids, URLs) are TLA+ strings with ""    *)
(* the empty string.                                                       *)
(***************************************************************************)
EXTENDS Integers, Sequences, FiniteSets, TLC

VARIABLES
    storage,    \* chrome.storage.sync: stored key -> value
    tab,        \* whether a web.whatsapp.com tab with the content script is open
    inbox,      \* messages sent to the WhatsApp tab, not yet handled by the content script
    popup,      \* the popup: its form fields and its saves awaiting their callback
    pt,         \* background: the handleProcessText call
    gc,         \* background: the handleGrammarCorrection call
    bgSave,     \* saveSettings messages on their way to the background
    bcast,      \* background: settings whose broadcastSettingsUpdate has not sent yet
    cs,         \* content script: its settings copy, its state object and the page it sees
    kd,         \* content script: the keydown handler that is awaiting
    ar,         \* the auto-reply for one incoming message, from request to dispatch
    fw,         \* the last simulateEnterPress: who called it and with which text
    pv,         \* the correction preview of the page: its modal, its timer, its decision
    auth,       \* background: the authentication requests (handleAuthentication and its poll)
    gs,         \* background: the getAuthStatus call
    inst,       \* background: the onInstalled listener
    aa,         \* background: the checkAutoAuth call of a tab update
    pairingLog  \* the numbers sent to the pairing-request endpoint so far

\* the variables of the content script and of its channel to the background
contentVars == <<bgSave, bcast, cs, kd, ar, fw, pv>>

\* the variables of the authentication and of the install handler
authVars == <<auth, gs, inst, aa, pairingLog>>

vars == <<storage, tab, inbox, popup, pt, gc, contentVars, authVars>>

-----------------------------------------------------------------------------
(* Bounds of the model *)

\* most messages waiting in the content script's inbox
MaxInbox == 2

\* loads of init in flight or on their way when a tab update is reported
MaxLoading == 3

\* most popup saves whose storage callback has not fired yet
MaxSaving == 1
\* most authentication requests made
MaxAuth == 2

-----------------------------------------------------------------------------
(* JavaScript values *)

\* Texts are sequences of characters.  The texts the user types: empty, blank, a word, and
\* the word after a space that trim() removes
TypedTexts == {<<>>, <<" ">>, <<"a", "a", "a">>, <<" ", "a", "a", "a">>}

\* the texts handed to the text processing client and the texts its server answers with:
\* empty, the word, the word with one character replaced, the word with all three replaced
ProcessTexts == {<<>>, <<"a", "a", "a">>, <<"a", "a", "b">>, <<"b", "b", "b">>}

\* String.prototype.trim over the modelled alphabet
RECURSIVE TrimStart(_)
TrimStart(s) == IF s # <<>> /\ Head(s) = " " THEN TrimStart(Tail(s)) ELSE s

RECURSIVE TrimEnd(_)
TrimEnd(s) == IF s # <<>> /\ s[Len(s)] = " " THEN TrimEnd(SubSeq(s, 1, Len(s) - 1)) ELSE s

Trim(s) == TrimEnd(TrimStart(s))

Has(o, k) == k \in DOMAIN o

\* {...a, ...b}
Spread(a, b) == b @@ a

\* o restricted to the keys ks
Pick(o, ks) == [k \in ks \cap DOMAIN o |-> o[k]]

\* a JavaScript string used as a condition: undefined, null and "" are falsy
TruthyText(o, k) == Has(o, k) /\ o[k] # <<>>
TruthyStr(o, k) == Has(o, k) /\ o[k] # ""
TruthyBool(o, k) == Has(o, k) /\ o[k] = TRUE

-----------------------------------------------------------------------------
(* chrome.storage.sync *)

DEFAULT_CONFIG ==
    [ serverUrl         |-> "https://api.generalbots.com",
      gbServerUrl       |-> "https://api.pragmatismo.com.br",
      enableProcessing  |-> TRUE,
      hideContacts      |-> FALSE,
      autoMode          |-> FALSE,
      grammarCorrection |-> TRUE,
      whatsappNumber    |-> <<>>,
      authToken         |-> "",
      instanceId        |-> "" ]

\* chrome.storage.sync.get(defaults): the stored value of each key of defaults, or its default
StorageGet(defaults) ==
    [k \in DOMAIN defaults |-> IF k \in DOMAIN storage THEN storage[k] ELSE defaults[k]]

\* chrome.storage.sync.get([keys]): the stored ones among keys
StorageGetKeys(keys) == Pick(storage, keys)

\* mutant of StorageWrite: a key that holds the value written already is removed
StorageWrite_DropsEqual(store, items) ==
    LET same == {k \in DOMAIN items : Has(store, k) /\ store[k] = items[k]}
    IN  [k \in (DOMAIN store \cup DOMAIN items) \ same |->
            IF k \in DOMAIN items THEN items[k] ELSE store[k]]

\* chrome.storage.sync.set(items) on a storage holding store: the items written replace the
\* values of their keys, the other keys stay
StorageWrite(store, items) == Spread(store, items)

\* chrome.storage.sync.set(items): the storage after the write
StorageSet(items) == StorageWrite(storage, items)

-----------------------------------------------------------------------------
(* Messages to the content script *)

SettingsUpdated(settings) == [action |-> "settingsUpdated", settings |-> settings]

\* chrome.tabs.sendMessage to every tab chrome.tabs.query finds: the inbox after it
TabsSendMessage(msg) == IF tab THEN Append(inbox, msg) ELSE inbox

CanSend == ~tab \/ Len(inbox) < MaxInbox

-----------------------------------------------------------------------------
(* Popup (src/popup.js) *)

PopupToggles == {"grammarCorrection", "enableProcessing", "hideContacts", "autoMode"}

\* pollAuthStatus is not running
PpIdle == [pc |-> "idle", attempts |-> 0]

DEFAULT_SETTINGS == Spread(DEFAULT_CONFIG, [authenticated |-> FALSE])

\* loadSettings: the form fields filled from storage
PopupLoadSettings ==
    LET items == StorageGet(DEFAULT_SETTINGS)
    IN  [ serverUrl         |-> IF items.serverUrl # "" THEN items.serverUrl
                                ELSE DEFAULT_SETTINGS.serverUrl,
          whatsappNumber    |-> items.whatsappNumber,
          grammarCorrection |-> items.grammarCorrection,
          enableProcessing  |-> items.enableProcessing,
          hideContacts      |-> items.hideContacts,
          autoMode          |-> items.autoMode ]

\* DOMContentLoaded: loadSettings
PopupOpen ==
    /\ ~popup.open
    /\ popup' = [popup EXCEPT !.open = TRUE, !.form = PopupLoadSettings]
    /\ UNCHANGED <<storage, tab, inbox, pt, gc, contentVars, authVars>>

\* window closed: the popup's script, its pending callbacks and its timers are gone
PopupClose ==
    /\ popup.open
    /\ popup' = [popup EXCEPT !.open = FALSE, !.saving = <<>>, !.authBtn = 0, !.poll = PpIdle]
    /\ UNCHANGED <<storage, tab, inbox, pt, gc, contentVars, authVars>>

\* saveSettings up to the storage write: the six form fields are written, the number trimmed
PopupSaveSettings(form) ==
    LET settings == [form EXCEPT !.whatsappNumber = Trim(@)]
    IN  /\ Len(popup.saving) < MaxSaving
        /\ storage' = StorageSet(settings)
        /\ popup' = [popup EXCEPT !.form = form, !.saving = Append(@, settings)]

\* a toggle's change listener: saveSettings(true)
PopupToggle(id) ==
    /\ popup.open
    /\ PopupSaveSettings([popup.form EXCEPT ![id] = ~@])
    /\ UNCHANGED <<tab, inbox, pt, gc, contentVars, authVars>>

\* the storage write's callback: the settings are sent to the WhatsApp tab
PopupSaveCallback ==
    /\ popup.open
    /\ popup.saving # <<>>
    /\ CanSend
    /\ inbox' = TabsSendMessage(SettingsUpdated(Head(popup.saving)))
    /\ popup' = [popup EXCEPT !.saving = Tail(@)]
    /\ UNCHANGED <<storage, tab, pt, gc, contentVars, authVars>>

-----------------------------------------------------------------------------
(* Background: text processing (src/background.js) *)

\* what the server may answer to a fetch
FetchOutcomes == {"unreachable", "non2xx", "badjson", "ok"}

\* a promise that settled with value v, and one that settled with an exception
Fulfilled(v) == [state |-> "fulfilled", value |-> v]
Rejected == [state |-> "rejected"]
Pending == [state |-> "pending"]

\* a handler that is not running
IdleCall == [pc |-> "idle", text |-> <<>>, settings |-> << >>, fetched |-> FALSE,
             outcome |-> "none", promise |-> Pending]

\* the return of the short circuit: processing is switched off
ProcessTextDisabled(text) == Fulfilled([processedText |-> text, changed |-> FALSE])

\* mutant of ProcessTextFallback: the catch block rethrows
ProcessTextFallback_Rethrow(text) == Rejected

\* the catch block of handleProcessText
ProcessTextFallback(text) ==
    Fulfilled([processedText |-> text, changed |-> FALSE, error |-> "error.message"])

\* the value handleProcessText returns for a 2xx answer with body data
ProcessTextResult(text, data) ==
    Fulfilled(
        [ processedText |-> IF TruthyText(data, "processedText") THEN data.processedText ELSE text,
          changed       |-> ~(Has(data, "processedText") /\ data.processedText = text),
          corrections   |-> IF Has(data, "corrections") THEN data.corrections ELSE <<>> ])

\* bodies the process endpoint may answer with: processedText and corrections are optional
ProcessData ==
    {<< >>} \cup {[processedText |-> t] : t \in ProcessTexts}
            \cup {[processedText |-> t, corrections |-> <<"c">>] : t \in ProcessTexts}

\* the message listener's case "processText": handleProcessText is called
ProcessTextCall(text) ==
    /\ pt.pc \in {"idle", "done"}
    /\ pt' = [IdleCall EXCEPT !.pc = "get", !.text = text]
    /\ UNCHANGED <<storage, tab, inbox, popup, gc, contentVars, authVars>>

\* settings = await chrome.storage.sync.get(DEFAULT_CONFIG)
ProcessTextGet ==
    /\ pt.pc = "get"
    /\ pt' = [pt EXCEPT !.pc = "got", !.settings = StorageGet(DEFAULT_CONFIG)]
    /\ UNCHANGED <<storage, tab, inbox, popup, gc, contentVars, authVars>>

\* mutant of ProcessTextShortCircuit: the enableProcessing check is missing
ProcessTextShortCircuit_Never(settings) == FALSE

\* handleProcessText after the settings are read: whether it returns at once or fetches
ProcessTextShortCircuit(settings) == ~settings.enableProcessing

\* the short circuit on enableProcessing, else the fetch is issued
ProcessTextStart ==
    /\ pt.pc = "got"
    /\ IF ProcessTextShortCircuit(pt.settings)
       THEN pt' = [pt EXCEPT !.pc = "done", !.promise = ProcessTextDisabled(pt.text)]
       ELSE pt' = [pt EXCEPT !.pc = "fetch", !.fetched = TRUE]
    /\ UNCHANGED <<storage, tab, inbox, popup, gc, contentVars, authVars>>

\* the fetch settles: the answer, or the catch block
ProcessTextSettle(outcome, data) ==
    /\ pt.pc = "fetch"
    /\ pt' = [pt EXCEPT !.pc = "done",
                        !.outcome = outcome,
                        !.promise = IF outcome = "ok" THEN ProcessTextResult(pt.text, data)
                                    ELSE ProcessTextFallback(pt.text)]
    /\ UNCHANGED <<storage, tab, inbox, popup, gc, contentVars, authVars>>

\* the catch block of handleGrammarCorrection
GrammarFallback(text) == Fulfilled([processedText |-> text, error |-> "error.message"])

\* the value handleGrammarCorrection returns for a 2xx answer with body data
GrammarResult(text, data) ==
    Fulfilled(
        [ processedText |-> IF TruthyText(data, "correctedText") THEN data.correctedText ELSE text,
          original      |-> text,
          corrections   |-> IF Has(data, "corrections") THEN data.corrections ELSE <<>> ]
        @@ [k \in {"language"} \cap {IF Has(data, "detectedLanguage") THEN "language" ELSE ""}
              |-> data.detectedLanguage])

\* bodies the grammar endpoint may answer with
GrammarData ==
    {<< >>, [detectedLanguage |-> "en"]}
        \cup {[correctedText |-> t, detectedLanguage |-> "en"] : t \in ProcessTexts}

\* the context menu's "Correct Grammar with AI" on a selection: handleGrammarCorrection is called
ContextMenuCorrectGrammar(selectionText) ==
    /\ selectionText # <<>>
    /\ gc.pc \in {"idle", "done"}
    /\ gc' = [IdleCall EXCEPT !.pc = "get", !.text = selectionText] @@ [caller |-> "menu"]
    /\ UNCHANGED <<storage, tab, inbox, popup, pt, contentVars, authVars>>

\* settings = await chrome.storage.sync.get(DEFAULT_CONFIG), then the fetch is issued
GrammarGet ==
    /\ gc.pc = "get"
    /\ gc' = [gc EXCEPT !.pc = "fetch", !.settings = StorageGet(DEFAULT_CONFIG), !.fetched = TRUE]
    /\ UNCHANGED <<storage, tab, inbox, popup, pt, contentVars, authVars>>

\* the fetch settles: the answer, or the catch block
GrammarSettle(outcome, data) ==
    /\ gc.pc = "fetch"
    /\ gc' = [gc EXCEPT !.pc = "settled",
                        !.outcome = outcome,
                        !.promise = IF outcome = "ok" THEN GrammarResult(gc.text, data)
                                    ELSE GrammarFallback(gc.text)]
    /\ UNCHANGED <<storage, tab, inbox, popup, pt, contentVars, authVars>>

\* the context menu handler resumes: a non-empty result replaces the selection in the tab
ContextMenuReplace ==
    /\ gc.pc = "settled"
    /\ gc.caller = "menu"
    /\ IF TruthyText(gc.promise.value, "processedText")
       THEN /\ CanSend
            /\ inbox' = TabsSendMessage([action |-> "replaceSelection",
                                         text |-> gc.promise.value.processedText])
       ELSE UNCHANGED inbox
    /\ gc' = [gc EXCEPT !.pc = "done"]
    /\ UNCHANGED <<storage, tab, popup, pt, contentVars, authVars>>

-----------------------------------------------------------------------------
(* Content script (src/unnamed/part_000) *)

\* getCurrentContactName's null; the conversation partners of the modelled page are "ann"
\* and "bob"
NoContact == "null"

\* the settings object the content script starts with
CsSettings ==
    [ serverUrl         |-> "https://api.generalbots.com",
      enableProcessing  |-> TRUE,
      hideContacts      |-> FALSE,
      autoMode          |-> FALSE,
      grammarCorrection |-> TRUE,
      whatsappNumber    |-> <<>>,
      authenticated     |-> FALSE ]

\* the script as it is injected: settings and state as declared, no chat open
CsStart ==
    [ settings         |-> CsSettings,
      initialized      |-> FALSE,
      loading          |-> 0,
      timer            |-> FALSE,
      setups           |-> 0,
      panel            |-> << >>,
      autoModeContacts |-> {},
      contact          |-> NoContact,
      controlsFor      |-> NoContact,
      input            |-> <<>> ]

\* no keydown handler is awaiting
KdIdle == [pc |-> "idle", typed |-> <<>>, originalText |-> <<>>, corrected |-> <<>>,
           failed |-> FALSE]

\* no auto-reply is under way
ArIdle == [pc |-> "idle", contact |-> NoContact, settings |-> << >>, outcome |-> "none",
           data |-> << >>, response |-> << >>, reply |-> <<>>]

Min3(a, b, c) == IF a <= b /\ a <= c THEN a ELSE IF b <= c THEN b ELSE c

\* mutant of levenshteinDistance: a replacement is not considered
levenshteinDistance_NoReplace(str1, str2) ==
    LET m == Len(str1)
        n == Len(str2)
        dp[i \in 0..m, j \in 0..n] ==
            IF j = 0 THEN i
            ELSE IF i = 0 THEN j
            ELSE IF str1[i] = str2[j] THEN dp[i - 1, j - 1]
            ELSE Min3(dp[i - 1, j], dp[i - 1, j], dp[i, j - 1]) + 1
    IN  dp[m, n]

\* levenshteinDistance: the table dp filled as the two loops fill it
levenshteinDistance(str1, str2) ==
    LET m == Len(str1)
        n == Len(str2)
        dp[i \in 0..m, j \in 0..n] ==
            IF j = 0 THEN i
            ELSE IF i = 0 THEN j
            ELSE IF str1[i] = str2[j] THEN dp[i - 1, j - 1]
            ELSE Min3(dp[i - 1, j - 1], dp[i - 1, j], dp[i, j - 1]) + 1
    IN  dp[m, n]

\* showCorrectionPreview accepts without asking below this distance
AutoAcceptDistance == 3

\* init up to its await: a call that finds state.initialized returns, any other call starts
\* a loadSettings of its own and will run the setup when that resolves
init(c) == IF c.initialized THEN c ELSE [c EXCEPT !.loading = @ + 1]

\* the web.whatsapp.com tab is opened: the script is injected, calls init (the document is
\* ready), which passes the initialized check and awaits loadSettings, and sets the 2 second
\* timer of its last line
TabOpen ==
    /\ ~tab
    /\ tab' = TRUE
    /\ cs' = [init(CsStart) EXCEPT !.timer = TRUE]
    /\ UNCHANGED <<storage, inbox, popup, pt, gc, bgSave, bcast, kd, ar, fw, authVars, pv>>

\* the checkboxes of the control panel as injectControlPanel renders them
PanelOf(settings) ==
    [ grammarCorrection |-> settings.grammarCorrection,
      hideContacts      |-> settings.hideContacts,
      autoMode          |-> settings.autoMode,
      authSection       |-> ~settings.authenticated,
      authBtn           |-> 0 ]

\* the 2 second timer set when the script was injected fires: init()
InitTimer ==
    /\ tab
    /\ cs.timer
    /\ cs' = [init(cs) EXCEPT !.timer = FALSE]
    /\ UNCHANGED <<storage, tab, inbox, popup, pt, gc, bgSave, bcast, kd, ar, fw, authVars, pv>>

\* init resumes after loadSettings: the stored settings are merged over the script's own, the
\* listeners and observers are set up, the control panel is injected
ContentInitLoaded ==
    /\ tab
    /\ cs.loading > 0
    /\ LET loaded == Spread(cs.settings, StorageGet(cs.settings))
       IN  cs' = [cs EXCEPT !.settings = loaded,
                            !.loading = @ - 1,
                            !.setups = @ + 1,
                            !.panel = PanelOf(loaded),
                            !.initialized = TRUE]
    /\ UNCHANGED <<storage, tab, inbox, popup, pt, gc, bgSave, bcast, kd, ar, fw, authVars, pv>>

\* the runtime.onMessage listener of the content script handles the oldest message
ContentOnMessage ==
    /\ tab
    /\ inbox # <<>>
    /\ inbox' = Tail(inbox)
    /\ LET message == Head(inbox)
       IN  CASE message.action = "tabReady" ->
                  cs' = init(cs)
             [] message.action = "settingsUpdated" ->
                  cs' = [cs EXCEPT !.settings = Spread(@, message.settings)]
             [] message.action = "enableAutoMode" ->
                  cs' = [cs EXCEPT !.settings =
                            Spread(Pick(@, DOMAIN @ \ {"whatsappNumber"}),
                                   Spread([autoMode |-> TRUE],
                                          Pick(message, {"whatsappNumber"})))]
             [] OTHER -> UNCHANGED cs
    /\ UNCHANGED <<storage, tab, popup, pt, gc, bgSave, bcast, kd, ar, fw, authVars, pv>>

\* saveSettings of the content script: its whole settings object is written to storage and
\* sent to the background in a saveSettings message
ContentSaveSettings(settings) ==
    /\ Len(bgSave) < MaxSaving
    /\ storage' = StorageSet(settings)
    /\ bgSave' = Append(bgSave, settings)

\* the toggles of the control panel
PanelToggles == {"grammarCorrection", "hideContacts", "autoMode"}

\* a checkbox of the control panel is clicked: settings[key] = this.checked, saveSettings()
PanelToggle(key) ==
    /\ tab
    /\ Has(cs.panel, key)
    /\ LET checked == ~cs.panel[key]
           settings == [cs.settings EXCEPT ![key] = checked]
       IN  /\ cs' = [cs EXCEPT !.panel[key] = checked, !.settings = settings]
           /\ ContentSaveSettings(settings)
    /\ UNCHANGED <<tab, inbox, popup, pt, gc, bcast, kd, ar, fw, authVars, pv>>

\* the message listener's case "saveSettings": the settings are written, then broadcast
BgSaveSettings ==
    /\ bgSave # <<>>
    /\ Len(bcast) < MaxSaving
    /\ storage' = StorageSet(Head(bgSave))
    /\ bgSave' = Tail(bgSave)
    /\ bcast' = Append(bcast, Head(bgSave))
    /\ UNCHANGED <<tab, inbox, popup, pt, gc, cs, kd, ar, fw, authVars, pv>>

\* broadcastSettingsUpdate after its tabs.query: the message goes to every WhatsApp tab
BgBroadcast ==
    /\ bcast # <<>>
    /\ CanSend
    /\ inbox' = TabsSendMessage(SettingsUpdated(Head(bcast)))
    /\ bcast' = Tail(bcast)
    /\ UNCHANGED <<storage, tab, popup, pt, gc, bgSave, cs, kd, ar, fw, authVars, pv>>

\* the user opens the chat with contact c; the page either renders a new header, which the
\* contact observer gives controls for c, or keeps the header and the controls it has
OpenChat(c, newHeader) ==
    /\ tab
    /\ cs.contact # c
    /\ kd.pc = "idle"
    /\ cs' = [cs EXCEPT !.contact = c,
                        !.input = <<>>,
                        !.controlsFor = IF ~cs.initialized THEN NoContact
                                        ELSE IF newHeader \/ @ = NoContact THEN c ELSE @]
    /\ UNCHANGED <<storage, tab, inbox, popup, pt, gc, bgSave, bcast, kd, ar, fw, authVars, pv>>

\* a click on the header's "Auto ON/OFF" button, which toggles the contact it was made for
ToggleContactAuto ==
    /\ tab
    /\ cs.contact # NoContact
    /\ cs.controlsFor # NoContact
    /\ cs' = [cs EXCEPT !.autoModeContacts =
                            IF cs.controlsFor \in @ THEN @ \ {cs.controlsFor}
                            ELSE @ \cup {cs.controlsFor}]
    /\ UNCHANGED <<storage, tab, inbox, popup, pt, gc, bgSave, bcast, kd, ar, fw, authVars, pv>>

\* the user types: the input field of the open chat holds text
UserType(text) ==
    /\ tab
    /\ cs.contact # NoContact
    /\ kd.pc = "idle"
    /\ cs.input # text
    /\ cs' = [cs EXCEPT !.input = text]
    /\ UNCHANGED <<storage, tab, inbox, popup, pt, gc, bgSave, bcast, kd, ar, fw, authVars, pv>>

-----------------------------------------------------------------------------
(* Content script: the outbound path (keydown handler, correction preview) *)

\* whether the keydown listener takes an Enter on a field holding input for itself
\* (preventDefault, stopPropagation)
Intercepts(input) ==
    /\ cs.initialized
    /\ Len(Trim(input)) > 0
    /\ cs.settings.enableProcessing
    /\ cs.settings.grammarCorrection

\* An Enter keydown (without shift) on the input field holding input, typed or dispatched by
\* simulateEnterPress, with gcNow the state of the last correctGrammar call: the listener
\* intercepts it and asks the background for the correction (processMessageWithLLM), or lets it
\* through to the page, which sends the field's text and empties the field.
\* One handler awaits at a time.
Keydown(input, gcNow) ==
    IF Intercepts(input)
    THEN /\ kd' = [KdIdle EXCEPT !.pc = "grammar", !.typed = input,
                                 !.originalText = Trim(input)]
         /\ gc' = [IdleCall EXCEPT !.pc = "get", !.text = Trim(input)] @@ [caller |-> "content"]
         /\ cs' = [cs EXCEPT !.input = input]
    ELSE /\ kd' = KdIdle
         /\ gc' = gcNow
         /\ cs' = [cs EXCEPT !.input = <<>>]

\* the user presses Enter in the open chat
UserEnter ==
    /\ tab
    /\ cs.contact # NoContact
    /\ kd.pc = "idle"
    /\ gc.pc \in {"idle", "done"}
    /\ Keydown(cs.input, gc)
    /\ UNCHANGED <<storage, tab, inbox, popup, pt, bgSave, bcast, ar, fw, authVars, pv>>

\* simulateEnterPress(inputField) with the field holding input: the Enter is dispatched on the
\* field, whose listeners (the keydown handler among them) run before dispatchEvent returns
simulateEnterPress(by, input, typed, failed, gcNow) ==
    /\ fw' = [by |-> by, text |-> input, typed |-> typed, failed |-> failed,
              tick |-> ~fw.tick]
    /\ Keydown(input, gcNow)

\* what processMessageWithLLM resolves with: the background's response, or the text itself
\* when the runtime reports lastError or hands no response
LLMResult(lastError) ==
    IF lastError \/ gc.promise.state # "fulfilled" THEN [processedText |-> kd.originalText]
    ELSE gc.promise.value

\* whether the handler goes on to showCorrectionPreview
OffersCorrection(result) ==
    TruthyText(result, "processedText") /\ result.processedText # kd.originalText

\* mutant of AutoAccepts: a correction at the threshold is accepted too
AutoAccepts_AtThreshold(original, corrected) ==
    levenshteinDistance(original, corrected) <= AutoAcceptDistance

\* showCorrectionPreview resolves true at once, with no modal
AutoAccepts(original, corrected) == levenshteinDistance(original, corrected) < AutoAcceptDistance

\* no correction preview was asked for
PvNone == [original |-> <<>>, corrected |-> <<>>, distance |-> 0, modal |-> FALSE,
           autoClose |-> FALSE, resolves |-> 0, decision |-> "none"]

\* showCorrectionPreview resolved true before it built anything
PvAutoAccepted(original, corrected) ==
    [original |-> original, corrected |-> corrected,
     distance |-> levenshteinDistance(original, corrected), modal |-> FALSE,
     autoClose |-> FALSE, resolves |-> 1, decision |-> "auto"]

\* showCorrectionPreview has appended its modal and set its 5 second timer
PvOpened(original, corrected) ==
    [original |-> original, corrected |-> corrected,
     distance |-> levenshteinDistance(original, corrected), modal |-> TRUE,
     autoClose |-> TRUE, resolves |-> 0, decision |-> "none"]

\* showCorrectionPreview(original, corrected) up to the return of its executor
showCorrectionPreview(original, corrected) ==
    IF AutoAccepts(original, corrected) THEN PvAutoAccepted(original, corrected)
    ELSE PvOpened(original, corrected)

\* showCorrectionPreview is called with two texts, outside any handler
PreviewCall(original, corrected) ==
    /\ pv' = showCorrectionPreview(original, corrected)
    /\ UNCHANGED <<storage, tab, inbox, popup, pt, gc, bgSave, bcast, cs, kd, ar, fw, authVars>>

\* mutant of PvClicked: the click listener does not clear the timer
PvClicked_TimerLeft(decision) ==
    [pv EXCEPT !.modal = FALSE, !.resolves = @ + 1,
               !.decision = IF @ = "none" THEN decision ELSE @]

\* a click listener of the modal: clearTimeout(autoClose), modal.remove(), resolve
PvClicked(decision) ==
    [pv EXCEPT !.modal = FALSE, !.autoClose = FALSE, !.resolves = @ + 1,
               !.decision = IF @ = "none" THEN decision ELSE @]

\* the timer's callback: modal.remove(), resolve(true)
PvTimedOut ==
    [pv EXCEPT !.modal = FALSE, !.autoClose = FALSE, !.resolves = @ + 1,
               !.decision = IF @ = "none" THEN "timeout" ELSE @]

\* The correctGrammar message is answered (or the runtime fails it): the handler resumes.  An
\* unchanged text is sent as it is; a correction close to the original is accepted at once and
\* replaces the input; any other correction opens the preview.
KdGrammarAnswer(lastError) ==
    /\ kd.pc = "grammar"
    /\ gc.caller = "content"
    /\ lastError \/ gc.pc = "settled"
    /\ LET result == LLMResult(lastError)
           failed == lastError \/ Has(result, "error")
           gcDone == IdleCall @@ [caller |-> "none"]
       IN  IF ~OffersCorrection(result)
           THEN /\ simulateEnterPress("keydown", cs.input, kd.typed, failed, gcDone)
                /\ pv' = PvNone
           ELSE IF AutoAccepts(kd.originalText, result.processedText)
           THEN /\ simulateEnterPress("keydown", result.processedText, kd.typed, failed, gcDone)
                /\ pv' = PvAutoAccepted(kd.originalText, result.processedText)
           ELSE /\ kd' = [kd EXCEPT !.pc = "preview", !.corrected = result.processedText,
                                    !.failed = failed]
                /\ gc' = gcDone
                /\ pv' = PvOpened(kd.originalText, result.processedText)
                /\ UNCHANGED <<cs, fw>>
    /\ UNCHANGED <<storage, tab, inbox, popup, pt, bgSave, bcast, ar, authVars>>

\* the promise of showCorrectionPreview is resolved with shouldSend and the handler resumes in
\* the same turn: an accepted correction replaces the input, and the send is forwarded.  A
\* promise that was resolved before ignores the call.
KdResume(shouldSend) ==
    IF kd.pc = "preview" /\ pv.resolves = 0
    THEN simulateEnterPress("keydown", IF shouldSend THEN kd.corrected ELSE cs.input,
                            kd.typed, kd.failed, gc)
    ELSE UNCHANGED <<kd, gc, cs, fw>>

\* a click on "Use Corrected": the preview resolves true
KdPreviewAccept ==
    /\ pv.modal
    /\ pv' = PvClicked("accept")
    /\ KdResume(TRUE)
    /\ UNCHANGED <<storage, tab, inbox, popup, pt, bgSave, bcast, ar, authVars>>

\* mutant of KdPreviewReject: the click on "Keep Original" resolves true
KdPreviewReject_Replaces ==
    /\ pv.modal
    /\ pv' = PvClicked("reject")
    /\ KdResume(TRUE)
    /\ UNCHANGED <<storage, tab, inbox, popup, pt, bgSave, bcast, ar, authVars>>

\* a click on "Keep Original": the preview resolves false, the input is sent as it is
KdPreviewReject ==
    /\ pv.modal
    /\ pv' = PvClicked("reject")
    /\ KdResume(FALSE)
    /\ UNCHANGED <<storage, tab, inbox, popup, pt, bgSave, bcast, ar, authVars>>

\* the 5 second timer of the preview runs out: the preview resolves true
KdPreviewAutoClose ==
    /\ pv.autoClose
    /\ pv' = PvTimedOut
    /\ KdResume(TRUE)
    /\ UNCHANGED <<storage, tab, inbox, popup, pt, bgSave, bcast, ar, authVars>>

\* mutant of KdCatch: the catch block ends the handler without simulateEnterPress
KdCatch_NoSend ==
    /\ kd.pc \in {"grammar", "preview"}
    /\ kd' = KdIdle
    /\ gc' = IdleCall @@ [caller |-> "none"]
    /\ pv' = IF kd.pc = "preview" THEN PvTimedOut ELSE PvNone
    /\ UNCHANGED <<storage, tab, inbox, popup, pt, bgSave, bcast, ar, cs, fw, authVars>>

\* the catch block: an exception in the try block after the handler resumed (the extension's
\* context is gone, an element of the page is missing), for a preview after it was closed by a
\* click or by its timer; the input is sent as it is
KdCatch ==
    /\ kd.pc \in {"grammar", "preview"}
    /\ simulateEnterPress("keydown", cs.input, kd.typed, TRUE, IdleCall @@ [caller |-> "none"])
    /\ pv' = IF kd.pc = "preview" THEN PvTimedOut ELSE PvNone
    /\ UNCHANGED <<storage, tab, inbox, popup, pt, bgSave, bcast, ar, authVars>>

-----------------------------------------------------------------------------
(* The inbound path: auto-reply (content script and background) *)

\* the replies the auto-reply endpoint suggests
Replies == {<<>>, <<"a">>}

\* bodies the auto-reply endpoint may answer with: suggestedReply and autoSend are optional
AutoReplyData ==
    {<< >>} \cup {[suggestedReply |-> r] : r \in Replies}
            \cup {[suggestedReply |-> r, autoSend |-> s] : r \in Replies, s \in BOOLEAN}

\* the checks of the message observer and of handleIncomingMessage before the request
WantsAutoReply(text) ==
    /\ cs.initialized
    /\ cs.settings.autoMode
    /\ cs.settings.authenticated
    /\ cs.contact # NoContact
    /\ cs.contact \in cs.autoModeContacts
    /\ Len(Trim(text)) > 0

\* a message with this text arrives in the open chat: handleIncomingMessage sends the
\* generateAutoReply request when its checks pass.  One auto-reply is under way at a time.
IncomingMessage(text) ==
    /\ tab
    /\ ar.pc = "idle"
    /\ WantsAutoReply(text)
    /\ ar' = [ArIdle EXCEPT !.pc = "sent", !.contact = cs.contact]
    /\ UNCHANGED <<storage, tab, inbox, popup, pt, gc, bgSave, bcast, cs, kd, fw, authVars, pv>>

\* handleAutoReply after its settings are read: whether it returns at once or fetches
AutoReplyShortCircuit(settings) == ~settings.autoMode

\* handleAutoReply: the settings are read; with autoMode off it returns, else it fetches
AutoReplyGet ==
    /\ ar.pc = "sent"
    /\ LET settings == StorageGet(DEFAULT_CONFIG)
       IN  IF AutoReplyShortCircuit(settings)
           THEN ar' = [ar EXCEPT !.pc = "respond", !.settings = settings,
                                 !.response = [autoModeDisabled |-> TRUE]]
           ELSE ar' = [ar EXCEPT !.pc = "fetch", !.settings = settings]
    /\ UNCHANGED <<storage, tab, inbox, popup, pt, gc, bgSave, bcast, cs, kd, fw, authVars, pv>>

\* the value handleAutoReply returns for a 2xx answer with body data, settings being the
\* settings it read before the fetch; reply: null and an undefined autoSend are absent keys
AutoReplyResult(settings, data) ==
    [k \in {"reply"} \cap {IF Has(data, "suggestedReply") THEN "reply" ELSE ""}
        |-> data.suggestedReply]
    @@ [k \in {"autoSend"} \cap {IF Has(data, "autoSend") THEN "autoSend" ELSE ""}
        |-> data.autoSend /\ settings.autoMode]

\* the fetch settles: the answer, or the catch block
AutoReplySettle(outcome, data) ==
    /\ ar.pc = "fetch"
    /\ ar' = [ar EXCEPT !.pc = "respond",
                        !.outcome = outcome,
                        !.data = IF outcome = "ok" THEN data ELSE << >>,
                        !.response = IF outcome = "ok" THEN AutoReplyResult(ar.settings, data)
                                     ELSE [error |-> "error.message"]]
    /\ UNCHANGED <<storage, tab, inbox, popup, pt, gc, bgSave, bcast, cs, kd, fw, authVars, pv>>

\* mutant of DispatchesReply: any reply is dispatched, whatever autoSend says
DispatchesReply_AnyReply(response) ==
    TruthyText(response, "reply")

\* the condition under which the callback of handleIncomingMessage calls sendAutoReply
DispatchesReply(response) ==
    TruthyText(response, "reply") /\ TruthyBool(response, "autoSend")

\* the callback of the generateAutoReply request (the runtime hands no response on lastError):
\* sendAutoReply puts the reply into the input field of the chat that is open, if one is
AutoReplyCallback(lastError) ==
    /\ ar.pc \in IF lastError THEN {"sent", "fetch", "respond"} ELSE {"respond"}
    /\ kd.pc = "idle"
    /\ IF ~lastError /\ DispatchesReply(ar.response) /\ cs.contact # NoContact
       THEN /\ ar' = [ar EXCEPT !.pc = "delay", !.reply = ar.response.reply]
            /\ cs' = [cs EXCEPT !.input = ar.response.reply]
       ELSE /\ ar' = [ar EXCEPT !.pc = "idle"]
            /\ UNCHANGED cs
    /\ UNCHANGED <<storage, tab, inbox, popup, pt, gc, bgSave, bcast, kd, fw, authVars, pv>>

\* sendAutoReply after its 500 ms: simulateEnterPress on the input field
AutoReplySend ==
    /\ ar.pc = "delay"
    /\ kd.pc = "idle"
    /\ gc.pc \in {"idle", "done"}
    /\ simulateEnterPress("autoReply", cs.input, <<>>, FALSE, gc)
    /\ ar' = [ar EXCEPT !.pc = "idle"]
    /\ UNCHANGED <<storage, tab, inbox, popup, pt, bgSave, bcast, authVars, pv>>

-----------------------------------------------------------------------------
(* Authentication (src/background.js, src/popup.js, the control panel) *)

\* the numbers a user types into a number field: a plain number, the same number written with
\* spaces, parentheses and a dash, letters, too few digits, nothing but a space
PlainNumber == <<"+", "1", "2", "3", "4", "5", "6", "7", "8", "9", "0">>
FormattedNumber == <<" ", "(", "1", "2", "3", ")", " ", "4", "5", "6", "-", "7", "8", "9", "0">>
PhoneTexts == {PlainNumber, FormattedNumber, <<"a", "b", "c">>, <<"1", "2", "3">>, <<" ">>}

Digits == {"0", "1", "2", "3", "4", "5", "6", "7", "8", "9"}

\* number.replace(/[\s\-\(\)]/g, "")
CleanNumber(number) == SelectSeq(number, LAMBDA c : c \notin {" ", "-", "(", ")"})

\* /^\+?[0-9]{10,15}$/.test(cleanNumber)
PhoneFormat(cleanNumber) ==
    LET digits == IF cleanNumber # <<>> /\ Head(cleanNumber) = "+" THEN Tail(cleanNumber)
                  ELSE cleanNumber
    IN  /\ Len(digits) >= 10
        /\ Len(digits) <= 15
        /\ \A i \in 1..Len(digits) : digits[i] \in Digits

\* the authentication requests the model follows
AuthIds == 1..MaxAuth

\* the requestId the server gives to the request in slot r
RequestId(r) == <<"R1", "R2", "R3", "R4">>[r]

\* no authentication was requested in this slot
AuthIdle == [pc |-> "idle", from |-> "none", whatsappNumber |-> <<>>, attempts |-> 0,
             queries |-> 0, data |-> << >>, outcome |-> "none", response |-> << >>]

\* the first slot that is free
FreeSlot(r) == auth[r].pc = "idle" /\ \A q \in 1..(r - 1) : auth[q].pc # "idle"

\* the message listener's case "authenticate": handleAuthentication is called with the number
\* of the message and awaits the settings
handleAuthentication(r, from, whatsappNumber) ==
    auth' = [auth EXCEPT ![r] = [AuthIdle EXCEPT !.pc = "get", !.from = from,
                                                 !.whatsappNumber = whatsappNumber]]

\* the popup's auth button is clicked with text in the number field: an empty or malformed
\* number is shown as an error, a well-formed one is sent, cleaned, to the background
PopupAuthenticate(text) ==
    /\ popup.open
    /\ popup.authBtn = 0
    /\ LET number == Trim(text)
           cleanNumber == CleanNumber(number)
       IN  IF number = <<>> \/ ~PhoneFormat(cleanNumber)
           THEN /\ popup' = [popup EXCEPT !.form.whatsappNumber = text]
                /\ UNCHANGED auth
           ELSE \E r \in AuthIds :
                   /\ FreeSlot(r)
                   /\ popup' = [popup EXCEPT !.form.whatsappNumber = text, !.authBtn = r]
                   /\ handleAuthentication(r, "popup", cleanNumber)
    /\ UNCHANGED <<storage, tab, inbox, pt, gc, contentVars, gs, inst, aa, pairingLog>>

\* the control panel's auth button is clicked with text in its number field: an empty number is
\* alerted, any other is sent to the background as it is
PanelAuthenticate(text) ==
    /\ tab
    /\ Has(cs.panel, "authSection")
    /\ cs.panel.authSection
    /\ cs.panel.authBtn = 0
    /\ LET number == Trim(text)
       IN  IF number = <<>>
           THEN UNCHANGED <<cs, auth>>
           ELSE \E r \in AuthIds :
                   /\ FreeSlot(r)
                   /\ cs' = [cs EXCEPT !.panel.authBtn = r]
                   /\ handleAuthentication(r, "panel", number)
    /\ UNCHANGED <<storage, tab, inbox, popup, pt, gc, bgSave, bcast, kd, ar, fw,
                   gs, inst, aa, pairingLog, pv>>

\* handleAuthentication has the settings and posts the number to the pairing-request endpoint
AuthRequestFetch(r) ==
    /\ auth[r].pc = "get"
    /\ auth' = [auth EXCEPT ![r].pc = "request"]
    /\ pairingLog' = pairingLog \cup {auth[r].whatsappNumber}
    /\ UNCHANGED <<storage, tab, inbox, popup, pt, gc, contentVars, gs, inst, aa>>

\* mutant of AuthPendingItems: the pending flag is not stored
AuthPendingItems_NoFlag(r) ==
    [ whatsappNumber |-> auth[r].whatsappNumber,
      authRequestId  |-> RequestId(r) ]

\* what handleAuthentication stores once the server has accepted the request
AuthPendingItems(r) ==
    [ whatsappNumber |-> auth[r].whatsappNumber,
      authPending    |-> TRUE,
      authRequestId  |-> RequestId(r) ]

\* the attempts after which the popup's pollAuthStatus gives up
MaxPopupAttempts == 60

\* pollAuthStatus(attempts) of the popup: past the cap it gives up, otherwise it sets its
\* 5 second timer
pollAuthStatus(attempts) ==
    [pc |-> IF attempts > MaxPopupAttempts THEN "timedout" ELSE "wait", attempts |-> attempts]

\* the pairing request settles.  A 2xx answer with a body: the pending state is stored,
\* pollAuthCompletion(requestId) is called and success is returned.  Anything else: failure is
\* returned, and the button that asked is enabled again
AuthRequestSettle(r, outcome) ==
    /\ auth[r].pc = "request"
    /\ IF outcome = "ok"
       THEN /\ storage' = StorageSet(AuthPendingItems(r))
            /\ auth' = [auth EXCEPT ![r].pc = "poll", ![r].outcome = outcome,
                                     ![r].response = [success |-> TRUE,
                                                      requestId |-> RequestId(r)]]
            /\ popup' = IF popup.authBtn = r THEN [popup EXCEPT !.poll = pollAuthStatus(0)]
                        ELSE popup
            /\ UNCHANGED <<cs, pv>>
       ELSE /\ auth' = [auth EXCEPT ![r].pc = "rejected", ![r].outcome = outcome,
                                     ![r].response = [success |-> FALSE,
                                                      error |-> "error.message"]]
            /\ popup' = IF popup.authBtn = r THEN [popup EXCEPT !.authBtn = 0] ELSE popup
            /\ cs' = IF Has(cs.panel, "authBtn") /\ cs.panel.authBtn = r
                     THEN [cs EXCEPT !.panel.authBtn = 0] ELSE cs
            /\ UNCHANGED storage
    /\ UNCHANGED <<tab, inbox, pt, gc, bgSave, bcast, kd, ar, fw, gs, inst, aa, pairingLog, pv>>

\* the attempts after which pollAuthCompletion gives up
MaxPollAttempts == 60

\* mutant of PollTimedOut: the cap is checked one attempt later
PollTimedOut_OneLater(attempts) == attempts > MaxPollAttempts + 1

\* the first test of pollAuthCompletion
PollTimedOut(attempts) == attempts > MaxPollAttempts

\* pollAuthCompletion(requestId, attempts) is called: past the cap it clears the pending flag
\* and returns, otherwise it reads the settings and queries the status endpoint
PollStart(r) ==
    /\ auth[r].pc = "poll"
    /\ IF PollTimedOut(auth[r].attempts)
       THEN /\ storage' = StorageSet([authPending |-> FALSE])
            /\ auth' = [auth EXCEPT ![r].pc = "timedout"]
       ELSE /\ auth' = [auth EXCEPT ![r].pc = "status", ![r].queries = @ + 1]
            /\ UNCHANGED storage
    /\ UNCHANGED <<tab, inbox, popup, pt, gc, contentVars, gs, inst, aa, pairingLog>>

\* the tokens the server hands out
Tokens == {"T1", "T2"}

\* the bodies the status endpoint answers with
StatusData ==
    {[status |-> "pending"], [status |-> "failed"], [status |-> "failed", message |-> "m"]}
        \cup {[status |-> "completed", token |-> t, instanceId |-> "I1"] : t \in Tokens}

\* mutant of PollCompletedItems: the token is not stored
PollCompletedItems_NoToken(data) ==
    [ instanceId    |-> data.instanceId,
      authPending   |-> FALSE,
      authenticated |-> TRUE ]

\* what pollAuthCompletion stores when the status is completed
PollCompletedItems(data) ==
    [ authToken     |-> data.token,
      instanceId    |-> data.instanceId,
      authPending   |-> FALSE,
      authenticated |-> TRUE ]

\* mutant of PollFailedItems: a failed request also clears the stored authentication
PollFailedItems_ClearsAuth ==
    [ authPending |-> FALSE, authToken |-> "", authenticated |-> FALSE ]

\* what pollAuthCompletion stores when the status is failed
PollFailedItems == [authPending |-> FALSE]

\* the status query settles.  completed: token and instance are stored and the update is
\* broadcast; failed: the pending flag is cleared; anything else (still pending, non-2xx, no
\* answer, no JSON): the 5 second timer for the next attempt is set
PollSettle(r, outcome, data) ==
    /\ auth[r].pc = "status"
    /\ IF outcome = "ok" /\ data.status = "completed"
       THEN /\ Len(bcast) < MaxSaving
            /\ storage' = StorageSet(PollCompletedItems(data))
            /\ bcast' = Append(bcast, [authenticated |-> TRUE])
            /\ auth' = [auth EXCEPT ![r].pc = "completed", ![r].data = data]
       ELSE IF outcome = "ok" /\ data.status = "failed"
       THEN /\ storage' = StorageSet(PollFailedItems)
            /\ auth' = [auth EXCEPT ![r].pc = "failed", ![r].data = data]
            /\ UNCHANGED bcast
       ELSE /\ auth' = [auth EXCEPT ![r].pc = "wait"]
            /\ UNCHANGED <<storage, bcast, pv>>
    /\ UNCHANGED <<tab, inbox, popup, pt, gc, bgSave, cs, kd, ar, fw, gs, inst, aa, pairingLog, pv>>

\* the timer fires: pollAuthCompletion(requestId, attempts + 1)
PollTimer(r) ==
    /\ auth[r].pc = "wait"
    /\ auth' = [auth EXCEPT ![r].pc = "poll", ![r].attempts = @ + 1]
    /\ UNCHANGED <<storage, tab, inbox, popup, pt, gc, contentVars, gs, inst, aa, pairingLog>>

\* getAuthStatus is not running
GsIdle == [pc |-> "idle", caller |-> "none", settings |-> << >>, fetched |-> FALSE,
           outcome |-> "none", result |-> << >>]

\* getAuthStatus is called: by the checkAuth alarm, or by the popup's checkAuthStatus
GetAuthStatusCall ==
    /\ gs.pc \in {"idle", "done"}
    /\ gs.caller = "none" \/ popup.poll.pc # "check"
    /\ gs' = [GsIdle EXCEPT !.pc = "get"]
    /\ UNCHANGED <<storage, tab, inbox, popup, pt, gc, contentVars, auth, inst, aa, pairingLog>>

\* the timer of pollAuthStatus fires: checkAuthStatus sends getAuthStatus to the background
PopupPollTimer ==
    /\ popup.open
    /\ popup.poll.pc = "wait"
    /\ gs.pc \in {"idle", "done"}
    /\ popup' = [popup EXCEPT !.poll.pc = "check"]
    /\ gs' = [GsIdle EXCEPT !.pc = "get", !.caller = "popup"]
    /\ UNCHANGED <<storage, tab, inbox, pt, gc, contentVars, auth, inst, aa, pairingLog>>

\* mutant of PopupPollAnswer: an unauthenticated answer polls again whatever the attempts
PopupPollAnswer_NoCap ==
    /\ popup.open
    /\ popup.poll.pc = "check"
    /\ gs.pc = "done"
    /\ gs.caller = "popup"
    /\ popup' = IF TruthyBool(gs.result, "authenticated")
                THEN [popup EXCEPT !.poll.pc = "connected", !.authBtn = 0]
                ELSE [popup EXCEPT !.poll.pc = "wait"]
    /\ gs' = [gs EXCEPT !.caller = "none"]
    /\ UNCHANGED <<storage, tab, inbox, pt, gc, contentVars, auth, inst, aa, pairingLog>>

\* checkAuthStatus resolves with the background's answer: authenticated ends the loop and
\* resets the button, anything else calls pollAuthStatus(attempts + 1), which gives up and
\* resets the button past the cap
PopupPollAnswer ==
    /\ popup.open
    /\ popup.poll.pc = "check"
    /\ gs.pc = "done"
    /\ gs.caller = "popup"
    /\ popup' = IF TruthyBool(gs.result, "authenticated")
                THEN [popup EXCEPT !.poll.pc = "connected", !.authBtn = 0]
                ELSE LET next == pollAuthStatus(popup.poll.attempts + 1)
                     IN  [popup EXCEPT !.poll = next,
                                       !.authBtn = IF next.pc = "timedout" THEN 0 ELSE @]
    /\ gs' = [gs EXCEPT !.caller = "none"]
    /\ UNCHANGED <<storage, tab, inbox, pt, gc, contentVars, auth, inst, aa, pairingLog>>

\* mutant of GetAuthStatusShortCircuit: the token is verified even when there is none
GetAuthStatusShortCircuit_Never(settings) == FALSE

\* the first test of getAuthStatus: no token, no verification
GetAuthStatusShortCircuit(settings) == ~TruthyStr(settings, "authToken")

\* getAuthStatus has the four stored keys: without a token it answers unauthenticated,
\* with one it asks the server to verify it
GetAuthStatusGet ==
    /\ gs.pc = "get"
    /\ LET settings == StorageGetKeys({"authToken", "authenticated", "whatsappNumber",
                                       "instanceId"})
       IN  gs' = IF GetAuthStatusShortCircuit(settings)
                 THEN [gs EXCEPT !.pc = "done", !.settings = settings,
                                 !.result = [authenticated |-> FALSE]]
                 ELSE [gs EXCEPT !.pc = "verify", !.settings = settings, !.fetched = TRUE]
    /\ UNCHANGED <<storage, tab, inbox, popup, pt, gc, contentVars, auth, inst, aa, pairingLog>>

\* what getAuthStatus returns for a token the server accepted
GetAuthStatusVerified(settings) ==
    [authenticated |-> TRUE] @@ Pick(settings, {"whatsappNumber", "instanceId"})

\* mutant of GetAuthStatusCleared: the token is cleared, the flag is left
GetAuthStatusCleared_TokenOnly == [authToken |-> ""]

\* what getAuthStatus stores for a token the server did not accept
GetAuthStatusCleared == [authToken |-> "", authenticated |-> FALSE]

\* the verify request settles: a 2xx answer keeps the token, anything else clears it
GetAuthStatusSettle(outcome) ==
    /\ gs.pc = "verify"
    /\ IF outcome \in {"ok", "badjson"}
       THEN /\ gs' = [gs EXCEPT !.pc = "done", !.outcome = outcome,
                                !.result = GetAuthStatusVerified(gs.settings)]
            /\ UNCHANGED storage
       ELSE /\ gs' = [gs EXCEPT !.pc = "done", !.outcome = outcome,
                                !.result = [authenticated |-> FALSE]]
            /\ storage' = StorageSet(GetAuthStatusCleared)
    /\ UNCHANGED <<tab, inbox, popup, pt, gc, contentVars, auth, inst, aa, pairingLog>>

\* the onInstalled listener is not running
InstIdle == [pc |-> "idle", existing |-> << >>]

\* the extension is installed or updated: the listener reads the stored configuration
OnInstalled ==
    /\ inst.pc = "idle"
    /\ inst' = [inst EXCEPT !.pc = "get"]
    /\ UNCHANGED <<storage, tab, inbox, popup, pt, gc, contentVars, auth, gs, aa, pairingLog>>

OnInstalledGet ==
    /\ inst.pc = "get"
    /\ inst' = [pc |-> "set", existing |-> StorageGet(DEFAULT_CONFIG)]
    /\ UNCHANGED <<storage, tab, inbox, popup, pt, gc, contentVars, auth, gs, aa, pairingLog>>

\* the listener writes the defaults under what it read
OnInstalledSet ==
    /\ inst.pc = "set"
    /\ storage' = StorageSet(Spread(DEFAULT_CONFIG, inst.existing))
    /\ inst' = InstIdle
    /\ UNCHANGED <<tab, inbox, popup, pt, gc, contentVars, auth, gs, aa, pairingLog>>

\* no checkAutoAuth call is in flight
AaIdle == [pc |-> "idle", settings |-> << >>]

\* the tabs.onUpdated listener, for a web.whatsapp.com tab whose status is complete: tabReady
\* is sent to the tab (dropped if no content script listens) and checkAutoAuth is called
TabUpdated ==
    /\ aa.pc = "idle"
    /\ CanSend
    /\ cs.loading + Len(inbox) < MaxLoading
    /\ inbox' = TabsSendMessage([action |-> "tabReady"])
    /\ aa' = [aa EXCEPT !.pc = "get"]
    /\ UNCHANGED <<storage, tab, popup, pt, gc, contentVars, auth, gs, inst, pairingLog>>

\* checkAutoAuth resumes after storage.sync.get: authenticated and autoMode set the 2 second
\* timer, anything else ends the call
CheckAutoAuthGet ==
    /\ aa.pc = "get"
    /\ LET settings == StorageGetKeys({"authenticated", "autoMode", "whatsappNumber"})
       IN  aa' = IF TruthyBool(settings, "authenticated") /\ TruthyBool(settings, "autoMode")
                 THEN [pc |-> "timer", settings |-> settings]
                 ELSE AaIdle
    /\ UNCHANGED <<storage, tab, inbox, popup, pt, gc, contentVars, auth, gs, inst, pairingLog>>

\* the timer of checkAutoAuth fires: enableAutoMode is sent to the tab with the number read
CheckAutoAuthTimer ==
    /\ aa.pc = "timer"
    /\ CanSend
    /\ inbox' = TabsSendMessage(Spread([action |-> "enableAutoMode"],
                                       Pick(aa.settings, {"whatsappNumber"})))
    /\ aa' = AaIdle
    /\ UNCHANGED <<storage, tab, popup, pt, gc, contentVars, auth, gs, inst, pairingLog>>

-----------------------------------------------------------------------------
(* Specifications *)

Init ==
    /\ storage = << >>
    /\ tab = FALSE
    /\ inbox = <<>>
    /\ popup = [open |-> FALSE, form |-> << >>, saving |-> <<>>, authBtn |-> 0, poll |-> PpIdle]
    /\ pt = IdleCall
    /\ gc = IdleCall @@ [caller |-> "none"]
    /\ bgSave = <<>>
    /\ bcast = <<>>
    /\ cs = CsStart
    /\ kd = KdIdle
    /\ ar = ArIdle
    /\ fw = [by |-> "none", text |-> <<>>, typed |-> <<>>, failed |-> FALSE, tick |-> FALSE]
    /\ pv = PvNone
    /\ auth = [r \in AuthIds |-> AuthIdle]
    /\ gs = GsIdle
    /\ inst = InstIdle
    /\ aa = AaIdle
    /\ pairingLog = {}

\* the toggles the text processing client reads
TextToggles == {"enableProcessing", "grammarCorrection"}

\* the text processing client (handleProcessText, and handleGrammarCorrection called from the
\* context menu), with the popup changing the settings under it
NextText ==
    \/ PopupOpen
    \/ PopupClose
    \/ \E id \in TextToggles : PopupToggle(id)
    \/ PopupSaveCallback
    \/ \E t \in ProcessTexts : ProcessTextCall(t)
    \/ ProcessTextGet
    \/ ProcessTextStart
    \/ \E o \in FetchOutcomes, d \in ProcessData : ProcessTextSettle(o, d)
    \/ \E t \in ProcessTexts : ContextMenuCorrectGrammar(t)
    \/ GrammarGet
    \/ \E o \in FetchOutcomes, d \in GrammarData : GrammarSettle(o, d)
    \/ ContextMenuReplace

SpecText == Init /\ [][NextText]_vars

\* the outbound path: the user types and presses Enter, the background corrects, the preview
\* is answered
NextOutbound ==
    \/ TabOpen
    \/ ContentInitLoaded
    \/ OpenChat("ann", TRUE)
    \/ \E t \in TypedTexts : UserType(t)
    \/ UserEnter
    \/ GrammarGet
    \/ \E o \in FetchOutcomes, d \in GrammarData : GrammarSettle(o, d)
    \/ \E e \in BOOLEAN : KdGrammarAnswer(e)
    \/ KdPreviewAccept
    \/ KdPreviewReject
    \/ KdPreviewAutoClose
    \/ KdCatch

SpecOutbound == Init /\ [][NextOutbound]_vars

\* the outbound path when every request is answered and every timer fires: the background reads
\* the settings and its fetch settles, the content script gets the answer, the preview's
\* 5 second timer runs out
SpecOutboundFair ==
    /\ SpecOutbound
    /\ WF_vars(GrammarGet)
    /\ WF_vars(\E o \in FetchOutcomes, d \in GrammarData : GrammarSettle(o, d))
    /\ WF_vars(KdGrammarAnswer(FALSE))
    /\ WF_vars(KdPreviewAutoClose)

\* what storage holds once an authentication has completed: the writes of
\* handleAuthentication and of pollAuthCompletion
StoredAfterAuth ==
    [ whatsappNumber |-> PlainNumber,
      authPending    |-> FALSE,
      authRequestId  |-> "R1",
      authToken      |-> "T1",
      instanceId     |-> "I1",
      authenticated  |-> TRUE ]

\* the extension of a user who has authenticated earlier
InitAuthenticated ==
    /\ storage = StoredAfterAuth
    /\ tab = FALSE
    /\ inbox = <<>>
    /\ popup = [open |-> FALSE, form |-> << >>, saving |-> <<>>, authBtn |-> 0, poll |-> PpIdle]
    /\ pt = IdleCall
    /\ gc = IdleCall @@ [caller |-> "none"]
    /\ bgSave = <<>>
    /\ bcast = <<>>
    /\ cs = CsStart
    /\ kd = KdIdle
    /\ ar = ArIdle
    /\ fw = [by |-> "none", text |-> <<>>, typed |-> <<>>, failed |-> FALSE, tick |-> FALSE]
    /\ pv = PvNone
    /\ auth = [r \in AuthIds |-> AuthIdle]
    /\ gs = GsIdle
    /\ inst = InstIdle
    /\ aa = AaIdle
    /\ pairingLog = {}

\* the inbound path: messages arrive in the open chat, the background asks for replies, the
\* content script dispatches them; the user enrols the contact and switches auto mode in the
\* panel meanwhile.  The grammar server cannot be reached here, so a dispatched reply that the
\* keydown handler intercepts is sent on as it is.
NextAuto ==
    \/ TabOpen
    \/ ContentInitLoaded
    \/ OpenChat("ann", TRUE)
    \/ ToggleContactAuto
    \/ IncomingMessage(<<"a", "a", "a">>)
    \/ AutoReplyGet
    \/ \E o \in FetchOutcomes, d \in AutoReplyData : AutoReplySettle(o, d)
    \/ \E e \in BOOLEAN : AutoReplyCallback(e)
    \/ AutoReplySend
    \/ GrammarGet
    \/ GrammarSettle("unreachable", << >>)
    \/ KdGrammarAnswer(FALSE)
    \/ PanelToggle("autoMode")
    \/ BgSaveSettings
    \/ BgBroadcast
    \/ ContentOnMessage

SpecAuto == InitAuthenticated /\ [][NextAuto]_vars

\* the extension of a user who has authenticated and has saved auto mode on
InitAutoMode ==
    /\ storage = Spread(StoredAfterAuth, [autoMode |-> TRUE])
    /\ tab = FALSE
    /\ inbox = <<>>
    /\ popup = [open |-> FALSE, form |-> << >>, saving |-> <<>>, authBtn |-> 0, poll |-> PpIdle]
    /\ pt = IdleCall
    /\ gc = IdleCall @@ [caller |-> "none"]
    /\ bgSave = <<>>
    /\ bcast = <<>>
    /\ cs = CsStart
    /\ kd = KdIdle
    /\ ar = ArIdle
    /\ fw = [by |-> "none", text |-> <<>>, typed |-> <<>>, failed |-> FALSE, tick |-> FALSE]
    /\ pv = PvNone
    /\ auth = [r \in AuthIds |-> AuthIdle]
    /\ gs = GsIdle
    /\ inst = InstIdle
    /\ aa = AaIdle
    /\ pairingLog = {}

\* the inbound path of that user, nobody touching a setting: messages arrive, replies are
\* asked for and dispatched, and the background verifies the token now and then (the popup's
\* getAuthStatus request, the checkAuth alarm)
NextInbound ==
    \/ TabOpen
    \/ ContentInitLoaded
    \/ OpenChat("ann", TRUE)
    \/ ToggleContactAuto
    \/ IncomingMessage(<<"a", "a", "a">>)
    \/ AutoReplyGet
    \/ \E o \in FetchOutcomes, d \in AutoReplyData : AutoReplySettle(o, d)
    \/ \E e \in BOOLEAN : AutoReplyCallback(e)
    \/ AutoReplySend
    \/ GrammarGet
    \/ GrammarSettle("unreachable", << >>)
    \/ KdGrammarAnswer(FALSE)
    \/ GetAuthStatusCall
    \/ GetAuthStatusGet
    \/ \E o \in FetchOutcomes : GetAuthStatusSettle(o)

SpecInbound == InitAutoMode /\ [][NextInbound]_vars

\* the user switches the processing toggles in the popup while typing and sending in the
\* WhatsApp tab; the grammar server cannot be reached
NextSaveRead ==
    \/ TabOpen
    \/ ContentInitLoaded
    \/ OpenChat("ann", TRUE)
    \/ UserType(<<"a", "a", "a">>)
    \/ UserEnter
    \/ GrammarGet
    \/ GrammarSettle("unreachable", << >>)
    \/ KdGrammarAnswer(FALSE)
    \/ PopupOpen
    \/ \E id \in {"grammarCorrection", "enableProcessing"} : PopupToggle(id)
    \/ PopupSaveCallback
    \/ ContentOnMessage

SpecSaveRead == Init /\ [][NextSaveRead]_vars

\* the longest text handed to levenshteinDistance
MaxText == 3

\* the texts of at most MaxText characters over a two-letter alphabet, the empty text included
DistanceTexts == UNION {[1..n -> {"a", "b"}] : n \in 0..MaxText}

\* showCorrectionPreview, and with it levenshteinDistance, called with every pair of texts
NextDistance == \E original, corrected \in DistanceTexts : PreviewCall(original, corrected)

SpecDistance == Init /\ [][NextDistance]_vars

\* every way of saving settings: toggles of the popup, a toggle of the control panel with the
\* background's saveSettings case
NextSave ==
    \/ TabOpen
    \/ ContentInitLoaded
    \/ PopupOpen
    \/ \E id \in {"autoMode", "grammarCorrection"} : PopupToggle(id)
    \/ PopupSaveCallback
    \/ PanelToggle("grammarCorrection")
    \/ BgSaveSettings
    \/ BgBroadcast
    \/ ContentOnMessage

SpecSave == Init /\ [][NextSave]_vars

\* one authentication from the popup's button to the end of its poll, whatever the servers
\* answer, with a WhatsApp tab to receive the broadcast
NextPoll ==
    \/ PopupOpen
    \/ PopupAuthenticate(FormattedNumber)
    \/ \E r \in AuthIds : AuthRequestFetch(r)
    \/ \E r \in AuthIds, o \in FetchOutcomes : AuthRequestSettle(r, o)
    \/ \E r \in AuthIds : PollStart(r)
    \/ \E r \in AuthIds, o \in FetchOutcomes, d \in StatusData : PollSettle(r, o, d)
    \/ \E r \in AuthIds : PollTimer(r)
    \/ TabOpen
    \/ ContentInitLoaded
    \/ BgBroadcast
    \/ ContentOnMessage

SpecPoll == Init /\ [][NextPoll]_vars

\* the status answers that complete a request with the first token
FirstCompleted == {d \in StatusData : d.status = "completed" /\ d.token = "T1"}

\* a second authentication while the first is stored: the tab was opened before anyone
\* authenticated, so its panel keeps its auth section; one request comes from the popup and
\* one from the panel.  The user confirms the first request before its first status query;
\* the second is answered whatever the server likes.
NextReauth ==
    \/ TabOpen
    \/ ContentInitLoaded
    \/ PopupOpen
    \/ PopupAuthenticate(PlainNumber)
    \/ PanelAuthenticate(PlainNumber)
    \/ \E r \in AuthIds : AuthRequestFetch(r)
    \/ \E r \in AuthIds : AuthRequestSettle(r, "ok")
    \/ \E r \in AuthIds : PollStart(r)
    \/ \E d \in FirstCompleted : PollSettle(1, "ok", d)
    \/ \E o \in FetchOutcomes, d \in StatusData : PollSettle(2, o, d)
    \/ \E r \in AuthIds : PollTimer(r)
    \/ BgBroadcast
    \/ ContentOnMessage

SpecReauth == Init /\ [][NextReauth]_vars

\* the status answers that complete a request with the second token
SecondCompleted == {d \in StatusData : d.status = "completed" /\ d.token = "T2"}

\* the second authentication of NextReauth is confirmed too, while getAuthStatus verifies
\* the stored token for the popup or the checkAuth alarm
NextVerifyRace ==
    \/ TabOpen
    \/ ContentInitLoaded
    \/ PopupOpen
    \/ PopupAuthenticate(PlainNumber)
    \/ PanelAuthenticate(PlainNumber)
    \/ \E r \in AuthIds : AuthRequestFetch(r)
    \/ \E r \in AuthIds : AuthRequestSettle(r, "ok")
    \/ \E r \in AuthIds : PollStart(r)
    \/ \E d \in FirstCompleted : PollSettle(1, "ok", d)
    \/ \E d \in SecondCompleted : PollSettle(2, "ok", d)
    \/ BgBroadcast
    \/ ContentOnMessage
    \/ GetAuthStatusCall
    \/ GetAuthStatusGet
    \/ \E o \in {"ok", "non2xx"} : GetAuthStatusSettle(o)

SpecVerifyRace == Init /\ [][NextVerifyRace]_vars

\* the status answers that end a poll
TerminalStatusData == {d \in StatusData : d.status # "pending" /\ (Has(d, "token") => d.token = "T1")}

\* the writers of the persisted authentication state: the install listener, an authentication
\* and its poll, getAuthStatus, the panel's save and its saveSettings message (the popup's save
\* writes neither authToken nor authenticated).  The user confirms or declines in WhatsApp
\* before the first status query, so a poll ends with it.
NextSettings ==
    \/ OnInstalled
    \/ OnInstalledGet
    \/ OnInstalledSet
    \/ PopupOpen
    \/ PopupAuthenticate(PlainNumber)
    \/ TabOpen
    \/ ContentInitLoaded
    \/ PanelToggle("autoMode")
    \/ BgSaveSettings
    \/ BgBroadcast
    \/ ContentOnMessage
    \/ \E r \in AuthIds : AuthRequestFetch(r)
    \/ \E r \in AuthIds : AuthRequestSettle(r, "ok")
    \/ \E r \in AuthIds : PollStart(r)
    \/ \E r \in AuthIds, d \in TerminalStatusData : PollSettle(r, "ok", d)
    \/ GetAuthStatusCall
    \/ GetAuthStatusGet
    \/ \E o \in {"ok", "non2xx"} : GetAuthStatusSettle(o)

SpecSettings == Init /\ [][NextSettings]_vars

\* one authentication from the popup with both of its loops: pollAuthCompletion in the
\* background and pollAuthStatus in the popup, which stays open; the user asks once
NextLoops ==
    \/ PopupOpen
    \/ pairingLog = {} /\ PopupAuthenticate(PlainNumber)
    \/ \E r \in AuthIds : AuthRequestFetch(r)
    \/ \E r \in AuthIds, o \in FetchOutcomes : AuthRequestSettle(r, o)
    \/ \E r \in AuthIds : PollStart(r)
    \/ \E r \in AuthIds, o \in FetchOutcomes, d \in StatusData : PollSettle(r, o, d)
    \/ \E r \in AuthIds : PollTimer(r)
    \/ PopupPollTimer
    \/ GetAuthStatusGet
    \/ \E o \in FetchOutcomes : GetAuthStatusSettle(o)
    \/ PopupPollAnswer

SpecLoops == Init /\ [][NextLoops]_vars

\* the loops when every call returns and every timer fires
SpecLoopsFair ==
    /\ SpecLoops
    /\ \A r \in AuthIds :
            /\ WF_vars(PollStart(r))
            /\ WF_vars(\E o \in FetchOutcomes, d \in StatusData : PollSettle(r, o, d))
            /\ WF_vars(PollTimer(r))
    /\ WF_vars(PopupPollTimer)
    /\ WF_vars(GetAuthStatusGet)
    /\ WF_vars(\E o \in FetchOutcomes : GetAuthStatusSettle(o))
    /\ WF_vars(PopupPollAnswer)

\* getAuthStatus, called at any time around the authentications of NextPoll
NextStatus ==
    \/ NextPoll
    \/ GetAuthStatusCall
    \/ GetAuthStatusGet
    \/ \E o \in FetchOutcomes : GetAuthStatusSettle(o)

SpecStatus == Init /\ [][NextStatus]_vars

\* both buttons that request authentication, with every text a user may have typed
NextAuthEntry ==
    \/ PopupOpen
    \/ PopupClose
    \/ \E n \in PhoneTexts : PopupAuthenticate(n)
    \/ TabOpen
    \/ ContentInitLoaded
    \/ \E n \in PhoneTexts : PanelAuthenticate(n)
    \/ \E r \in AuthIds : AuthRequestFetch(r)
    \/ \E r \in AuthIds, o \in FetchOutcomes : AuthRequestSettle(r, o)
    \/ \E r \in AuthIds : PollStart(r)
    \/ \E r \in AuthIds, d \in TerminalStatusData : PollSettle(r, "ok", d)
    \/ BgBroadcast
    \/ ContentOnMessage

SpecAuthEntry == Init /\ [][NextAuthEntry]_vars

-----------------------------------------------------------------------------
(* Text Processing Client: claims C5, C6, C7 (under SpecText) *)

\* C5: when the enableProcessing that handleProcessText read from storage is false, the call
\* resolves with processedText equal to the text it was given and changed false, and it has
\* issued no fetch.
C5_DisabledShortCircuits ==
    (pt.pc \in {"fetch", "done"} /\ ~pt.settings.enableProcessing) =>
        /\ pt.pc = "done"
        /\ ~pt.fetched
        /\ pt.promise.state = "fulfilled"
        /\ pt.promise.value.processedText = pt.text
        /\ pt.promise.value.changed = FALSE

\* C5's case: a processText call on a non-empty text has returned while processing was off
C5_Witness ==
    /\ pt.pc = "done"
    /\ ~pt.settings.enableProcessing
    /\ pt.text # <<>>

\* the answers of an unreachable server and of one that answers non-2xx
Unavailable == {"unreachable", "non2xx"}

\* C6: a processText or correctGrammar call whose server is unreachable or answers non-2xx
\* resolves (its promise is never rejected) with processedText equal to the original text and
\* with changed false or an error attached.
C6_FailOpen ==
    /\ (pt.pc = "done" /\ pt.outcome \in Unavailable) =>
          /\ pt.promise.state = "fulfilled"
          /\ pt.promise.value.processedText = pt.text
          /\ \/ (Has(pt.promise.value, "changed") /\ pt.promise.value.changed = FALSE)
             \/ Has(pt.promise.value, "error")
    /\ (gc.pc \in {"settled", "done"} /\ gc.outcome \in Unavailable) =>
          /\ gc.promise.state = "fulfilled"
          /\ gc.promise.value.processedText = gc.text
          /\ \/ (Has(gc.promise.value, "changed") /\ gc.promise.value.changed = FALSE)
             \/ Has(gc.promise.value, "error")

\* C6's case: both calls have settled against a server that could not be used
C6_Witness ==
    /\ pt.pc = "done" /\ pt.outcome = "unreachable" /\ pt.text # <<>>
    /\ gc.pc = "done" /\ gc.outcome = "non2xx"

\* C7: in every result of processText, changed is true exactly when the returned processedText
\* differs from the original text.
C7_ChangedIffDiffers ==
    (pt.pc = "done" /\ pt.promise.state = "fulfilled") =>
        (pt.promise.value.changed <=> pt.promise.value.processedText # pt.text)

-----------------------------------------------------------------------------
(* Outbound path: claim C2 (under SpecOutboundFair) *)

\* C2: every Enter the keydown handler intercepted is followed by a simulateEnterPress of that
\* handler, whatever the grammar call came to (a correction, the same text, an error result,
\* a runtime error, an exception); and when the processing failed, the text in the field at
\* that simulateEnterPress is the text the user had typed.
C2_FailOpenSend ==
    /\ []((fw.by = "keydown" /\ fw.failed) => fw.text = fw.typed)
    /\ \A b \in BOOLEAN : (kd.pc # "idle" /\ fw.tick = b) ~> (fw.tick # b)

\* C2's case: the handler has forwarded the send of a non-empty text whose processing failed
C2_Witness ==
    /\ fw.by = "keydown"
    /\ fw.failed
    /\ Trim(fw.typed) # <<>>

-----------------------------------------------------------------------------
(* Auto-Reply Coordinator: claim C1 (under SpecAuto) *)

\* autoMode is off everywhere: in storage and in the content script's copy
AutoModeOff ==
    /\ ~StorageGet(DEFAULT_CONFIG).autoMode
    /\ ~cs.settings.autoMode

\* C1: sendAutoReply never runs while autoMode is off: no step starts the dispatch of a reply
\* (the callback of the generateAutoReply request calling sendAutoReply) from a state in which
\* autoMode is off, even if it was on when the request was issued.
C1_NoDispatchWhenAutoModeOff ==
    [][(ar.pc # "delay" /\ ar'.pc = "delay") => ~AutoModeOff]_vars


-----------------------------------------------------------------------------
(* Persisted settings and authentication entry: claims C3, C4 (under SpecSettings) *)

\* C3: in every reachable state of the persisted settings, authToken is empty (or absent)
\* exactly when authenticated is false (or absent), whatever writers have run.
C3_TokenIffAuthenticated ==
    TruthyStr(storage, "authToken") <=> TruthyBool(storage, "authenticated")

\* C4: every number that was sent to the pairing-request endpoint passes the format check
\* once spaces, dashes and parentheses are stripped; a number that fails it is never sent,
\* whichever button asked.
C4_NoPairingForMalformed ==
    \A number \in pairingLog : PhoneFormat(CleanNumber(number))

-----------------------------------------------------------------------------
(* Authentication poll: claims C8, C9, C10 (under SpecPoll) *)

\* C8: pollAuthCompletion called with attempts = 61 ends at once as timed out: its step clears
\* the stored pending flag and sends no status query, and a poll that has timed out is never
\* scheduled again.
C8_TimesOutAtSixtyOne ==
    /\ [][\A r \in AuthIds :
            (auth[r].pc = "poll" /\ auth[r].attempts = 61 /\ auth'[r] # auth[r]) =>
                /\ auth'[r].pc = "timedout"
                /\ auth'[r].queries = auth[r].queries
                /\ Has(storage', "authPending")
                /\ storage'.authPending = FALSE]_vars
    /\ [][\A r \in AuthIds : auth[r].pc = "timedout" => auth'[r] = auth[r]]_vars

\* C8's case: a poll was called with attempts = 61 and has returned
C8_Witness ==
    \E r \in AuthIds : auth[r].pc = "timedout" /\ auth[r].attempts = 61

\* C9: for one authentication request at most 60 status queries are sent.
C9_AtMostSixtyQueries ==
    \A r \in AuthIds : auth[r].queries <= 60

\* C10: the step in which a status query is answered completed stores the token and the
\* instanceId of the answer, authenticated true and authPending false, and calls the settings
\* broadcast; after it the request sends no further status query and is not scheduled again.
C10_CompletedPersistsAndStops ==
    /\ [][\A r \in AuthIds :
            (auth[r].pc = "status" /\ auth'[r].pc = "completed") =>
                /\ auth'[r].data.status = "completed"
                /\ Has(storage', "authToken") /\ storage'.authToken = auth'[r].data.token
                /\ Has(storage', "instanceId") /\ storage'.instanceId = auth'[r].data.instanceId
                /\ Has(storage', "authenticated") /\ storage'.authenticated = TRUE
                /\ Has(storage', "authPending") /\ storage'.authPending = FALSE
                /\ Len(bcast') = Len(bcast) + 1]_vars
    /\ [][\A r \in AuthIds : auth[r].pc = "completed" => auth'[r] = auth[r]]_vars

\* C10's case: a request was answered completed after at least one earlier query, and its
\* broadcast has reached the content script
C10_Witness ==
    \E r \in AuthIds :
        /\ auth[r].pc = "completed"
        /\ auth[r].queries > 1
        /\ storage.authToken = "T2"
        /\ bcast = <<>>
        /\ cs.initialized
        /\ cs.settings.authenticated

-----------------------------------------------------------------------------
(* Authentication poll: claims C11, C12 (under SpecReauth) *)

\* the stored keys that say who is authenticated
AuthKeys == {"authToken", "instanceId", "authenticated"}

\* C11: the step in which a status query is answered failed stores authPending false and
\* leaves authToken, instanceId and authenticated as they were; after it the request sends no
\* further status query and is not scheduled again.
C11_FailedEndsRequest ==
    /\ [][\A r \in AuthIds :
            (auth[r].pc = "status" /\ auth'[r].pc = "failed") =>
                /\ auth'[r].data.status = "failed"
                /\ Has(storage', "authPending") /\ storage'.authPending = FALSE
                /\ Pick(storage', AuthKeys) = Pick(storage, AuthKeys)
                /\ auth'[r].queries = auth[r].queries]_vars
    /\ [][\A r \in AuthIds : auth[r].pc = "failed" => auth'[r] = auth[r]]_vars

\* C11's case: a request was answered failed, after an earlier query, while a token was stored
C11_Witness ==
    \E r \in AuthIds :
        /\ auth[r].pc = "failed"
        /\ auth[r].queries > 1
        /\ TruthyStr(storage, "authToken")
        /\ ~storage.authPending

\* C12: the step in which a poll times out leaves the stored state unauthenticated:
\* authenticated is not true and no token is stored.
C12_TimeoutMarksUnauthenticated ==
    [][\A r \in AuthIds :
          (auth[r].pc = "poll" /\ auth'[r].pc = "timedout") =>
              /\ ~TruthyBool(storage', "authenticated")
              /\ ~TruthyStr(storage', "authToken")]_vars

-----------------------------------------------------------------------------
(* Authentication status: claims C13, C14 (under SpecStatus) *)

\* C13: when getAuthStatus finds no stored token, it returns unauthenticated in that step,
\* has called the verify endpoint not at all and leaves the storage as it is.
C13_NoTokenNoVerify ==
    [][(gs.pc = "get" /\ gs'.pc # "get" /\ ~TruthyStr(storage, "authToken")) =>
          /\ gs'.pc = "done"
          /\ gs'.result = [authenticated |-> FALSE]
          /\ ~gs'.fetched
          /\ storage' = storage]_vars

\* C13's case: getAuthStatus has returned without a token, for a user whose authentication
\* was declined
C13_Witness ==
    /\ gs.pc = "done"
    /\ ~gs.fetched
    /\ ~TruthyStr(gs.settings, "authToken")
    /\ auth[1].pc = "failed"

\* C14: when the verify call for a stored token settles, a 2xx answer makes getAuthStatus
\* return authenticated and leaves the storage as it is; any other answer, or none, makes it
\* store an empty token and authenticated false and return unauthenticated.
C14_VerifyDecides ==
    [][(gs.pc = "verify" /\ gs'.pc # "verify") =>
          /\ gs'.pc = "done"
          /\ IF gs'.outcome \in {"ok", "badjson"}
             THEN /\ gs'.result.authenticated = TRUE
                  /\ storage' = storage
             ELSE /\ gs'.result = [authenticated |-> FALSE]
                  /\ storage'.authToken = ""
                  /\ storage'.authenticated = FALSE]_vars

\* C14's case: a stored token was refused by the server and has been cleared
C14_Witness ==
    /\ gs.pc = "done"
    /\ gs.outcome = "non2xx"
    /\ TruthyStr(gs.settings, "authToken")
    /\ storage.authToken = ""

-----------------------------------------------------------------------------
(* Authentication request: claim C15 (under SpecPoll) *)

\* C15: when the pairing request settles, a 2xx answer with a body stores authPending true,
\* the requestId of the answer and the number, returns success and calls the poll; a non-2xx
\* answer or a network error returns failure and leaves the storage as it is, and a request
\* that was refused never polls.
C15_PairingOutcome ==
    /\ [][\A r \in AuthIds :
            (auth[r].pc = "request" /\ auth'[r].pc # "request") =>
                IF auth'[r].outcome = "ok"
                THEN /\ auth'[r].response.success
                     /\ auth'[r].pc = "poll" /\ auth'[r].attempts = 0
                     /\ {"authPending", "authRequestId", "whatsappNumber"} \subseteq DOMAIN storage'
                     /\ storage'.authPending = TRUE
                     /\ storage'.authRequestId = auth'[r].response.requestId
                     /\ storage'.whatsappNumber = auth[r].whatsappNumber
                ELSE /\ ~auth'[r].response.success
                     /\ auth'[r].pc = "rejected"
                     /\ storage' = storage]_vars
    /\ [][\A r \in AuthIds : auth[r].pc = "rejected" => auth'[r] = auth[r]]_vars

\* C15's case: one pairing request was refused and a later one was accepted and is polling
C15_Witness ==
    \E r, q \in AuthIds :
        /\ auth[r].pc = "rejected" /\ auth[r].outcome = "non2xx" /\ auth[r].queries = 0
        /\ auth[q].pc = "status" /\ storage.authPending

-----------------------------------------------------------------------------
(* Correction decision: claims C16, C17, C18 (under SpecOutbound, SpecOutboundFair) *)

\* the edit distance of two texts: the fewest insertions, deletions and replacements of one
\* character that turn s into t
RECURSIVE EditDistance(_, _)
EditDistance(s, t) ==
    IF s = <<>> THEN Len(t)
    ELSE IF t = <<>> THEN Len(s)
    ELSE IF Head(s) = Head(t) THEN EditDistance(Tail(s), Tail(t))
    ELSE 1 + Min3(EditDistance(Tail(s), Tail(t)), EditDistance(Tail(s), t),
                  EditDistance(s, Tail(t)))

\* C16: whenever showCorrectionPreview was called for a pair (original, corrected), it has
\* resolved at once, with no modal and no timer, exactly when the edit distance of the pair is
\* below 3; for a distance of 3 or more the modal was shown.
C16_AutoAcceptBelowThree ==
    pv # PvNone =>
        /\ (EditDistance(pv.original, pv.corrected) < 3) <=> (pv.decision = "auto")
        /\ pv.decision = "auto" => (~pv.modal /\ ~pv.autoClose /\ pv.resolves = 1)
        /\ (pv.decision = "none") <=> pv.modal

\* C16's case: a correction one character away from the text typed was accepted at once and
\* forwarded
C16_Witness ==
    /\ pv.decision = "auto"
    /\ EditDistance(pv.original, pv.corrected) = 1
    /\ fw.by = "keydown"
    /\ fw.text = pv.corrected

\* C17: the correction decision resolves, and exactly once.  The promise is never resolved a
\* second time; once it is resolved the timer is not armed any more (a click clears it, so it
\* cannot fire later); a preview that is open gets resolved; and when the timer is what
\* resolves it, the handler goes on as for an accept: the corrected text is forwarded.
C17_ResolvesExactlyOnce ==
    /\ [](pv.resolves <= 1)
    /\ [](pv.resolves = 1 => ~pv.autoClose /\ ~pv.modal)
    /\ (pv.modal ~> (pv.resolves = 1 /\ pv.decision \in {"accept", "reject", "timeout"}))
    /\ [][(pv.modal /\ pv'.decision = "timeout" /\ ~fw'.failed) =>
                (pv.autoClose /\ fw'.tick # fw.tick /\ fw'.text = pv.corrected)]_vars

\* C17's case: nobody clicked, the timer resolved the preview, once, and the corrected text
\* was forwarded
C17_Witness ==
    /\ pv.decision = "timeout"
    /\ pv.resolves = 1
    /\ ~fw.failed
    /\ fw.text = pv.corrected
    /\ EditDistance(pv.original, pv.corrected) = 3

\* C18: in the step in which an open preview is decided (and nothing throws), the send is
\* forwarded with the corrected text in the input field when the decision is accept, by a
\* click or by the timer, and with the text as the user typed it when the decision is reject.
C18_SentTextFollowsDecision ==
    [][(pv.modal /\ pv'.resolves = 1 /\ ~fw'.failed) =>
            /\ fw'.tick # fw.tick
            /\ fw'.by = "keydown"
            /\ pv'.decision \in {"accept", "timeout"} =>
                    (fw'.text = pv.corrected /\ cs'.input = pv.corrected)
            /\ pv'.decision = "reject" =>
                    (fw'.text = fw'.typed /\ Trim(fw'.text) = pv.original /\ cs'.input = fw'.typed)
            /\ pv'.decision \in {"accept", "timeout", "reject"}]_vars

\* C18's case: the user kept the original of a correction three characters away, and the
\* text typed was forwarded
C18_Witness ==
    /\ pv.decision = "reject"
    /\ ~fw.failed
    /\ fw.by = "keydown"
    /\ fw.text = <<" ", "a", "a", "a">>
    /\ pv.corrected = <<"b", "b", "b">>

-----------------------------------------------------------------------------
(* Auto-reply preconditions: claim C19 (under SpecInbound) *)

\* the three preconditions of an auto-reply as the settings store and the session hold them:
\* auto mode is saved on, the user is authenticated, the partner of the open chat is enrolled
AutoReplyEnabled ==
    /\ StorageGet(DEFAULT_CONFIG).autoMode
    /\ TruthyBool(storage, "authenticated")
    /\ TruthyStr(storage, "authToken")
    /\ cs.contact # NoContact
    /\ cs.contact \in cs.autoModeContacts

\* C19: the generateAutoReply request is sent only from a state in which auto mode is on, the
\* user is authenticated and the partner of the open chat is enrolled; and the background
\* calls the auto-reply endpoint only for such a request, with auto mode on.
C19_RequestOnlyWhenEnabled ==
    /\ [][(ar.pc = "idle" /\ ar'.pc = "sent") => AutoReplyEnabled]_vars
    /\ [][(ar.pc # "fetch" /\ ar'.pc = "fetch") =>
                (ar.pc = "sent" /\ StorageGet(DEFAULT_CONFIG).autoMode)]_vars

-----------------------------------------------------------------------------
(* Auto-reply dispatch: claim C20 (under SpecInbound) *)

\* C20: the callback of a generateAutoReply request starts the dispatch of a reply only when
\* the request was answered 2xx with a body in which autoSend is true and suggestedReply is a
\* non-empty text, and the reply dispatched is that text; no runtime error, failed request,
\* absent or false autoSend, or absent or empty reply starts one.
C20_DispatchOnlyWhenFlagged ==
    [][(ar.pc # "delay" /\ ar'.pc = "delay") =>
            /\ ar.pc = "respond"
            /\ ar.outcome = "ok"
            /\ TruthyBool(ar.data, "autoSend")
            /\ TruthyText(ar.data, "suggestedReply")
            /\ ar'.reply = ar.data.suggestedReply
            /\ cs'.input = ar.data.suggestedReply]_vars

\* C20's case: a reply flagged autoSend was put into the input field and waits to be sent
C20_Witness ==
    /\ ar.pc = "delay"
    /\ ar.outcome = "ok"
    /\ ar.data = [suggestedReply |-> <<"a">>, autoSend |-> TRUE]
    /\ cs.input = <<"a">>

-----------------------------------------------------------------------------
(* Auto-reply send: claim C21 (under SpecInbound) *)

\* C21: the step in which sendAutoReply presses Enter on the reply starts no correction pass:
\* the keydown handler stays idle (so it can show no preview for the reply) and no
\* correctGrammar request is sent, whatever enableProcessing and grammarCorrection are.
C21_NoCorrectionPass ==
    [][(ar.pc = "delay" /\ ar'.pc # "delay") => (kd'.pc = "idle" /\ gc' = gc)]_vars

-----------------------------------------------------------------------------
(* Broadcast after a write: claim C22 (under SpecStatus) *)

\* the settings objects for which a settingsUpdated message is on its way: handed to
\* broadcastSettingsUpdate, waiting in the popup's storage callback, or in a saveSettings
\* message the background will write again and broadcast
BroadcastsQueued(bc, saving, bg) ==
    {bc[i] : i \in DOMAIN bc} \cup {saving[i] : i \in DOMAIN saving} \cup {bg[i] : i \in DOMAIN bg}

\* the keys a storage write has changed
KeysChanged(before, after) ==
    {k \in DOMAIN after : k \notin DOMAIN before \/ before[k] # after[k]}

\* C22: every step that changes the persisted settings schedules, in the same step, a
\* settingsUpdated broadcast whose settings carry every value that was changed.
C22_WriteIsBroadcast ==
    [][storage' # storage =>
            \E settings \in BroadcastsQueued(bcast', popup'.saving, bgSave') :
                /\ (Len(bcast') > Len(bcast) \/ Len(popup'.saving) > Len(popup.saving)
                        \/ Len(bgSave') > Len(bgSave))
                /\ \A k \in KeysChanged(storage, storage') :
                        Has(settings, k) /\ settings[k] = storage'[k]]_vars

-----------------------------------------------------------------------------
(* Read after a completed save: claim C23 (under SpecSaveRead) *)

\* every save that was started has completed: the callback of each storage write has fired
SavesCompleted == popup.saving = <<>> /\ bgSave = <<>>

\* C23: when every save has completed, a typed Enter is taken for correction only if the
\* settings saved say so: the keydown handler's check of enableProcessing and
\* grammarCorrection never uses a value from before the save.
C23_ReadSeesCompletedSave ==
    [][(SavesCompleted /\ kd.pc = "idle" /\ kd'.pc = "grammar" /\ fw' = fw) =>
            /\ StorageGet(DEFAULT_CONFIG).enableProcessing
            /\ StorageGet(DEFAULT_CONFIG).grammarCorrection]_vars

-----------------------------------------------------------------------------
(* Idempotent save: claim C24 (under SpecSave) *)

\* the settings objects a step has written to storage: the popup's saveSettings, the content
\* script's saveSettings, the background's saveSettings case
SavedInStep ==
    IF Len(popup'.saving) > Len(popup.saving) THEN {popup'.saving[Len(popup'.saving)]}
    ELSE IF Len(bgSave') > Len(bgSave) THEN {bgSave'[Len(bgSave')]}
    ELSE IF Len(bgSave') < Len(bgSave) THEN {Head(bgSave)}
    ELSE {}

-----------------------------------------------------------------------------
(* Load and install: claim C25 (under SpecSettings) *)

\* C25: loadSettings of the content script leaves, for every key, the stored value when one
\* is stored and the default otherwise; and the write of the install/update handler changes
\* no value that is stored when it writes.
C25_LoadMergesInstallKeeps ==
    /\ [][cs'.loading < cs.loading =>
                \A k \in DOMAIN CsSettings :
                    cs'.settings[k] = IF Has(storage, k) THEN storage[k] ELSE CsSettings[k]]_vars
    /\ [][inst.pc = "set" /\ inst'.pc # "set" =>
                \A k \in DOMAIN storage : Has(storage', k) /\ storage'[k] = storage[k]]_vars

-----------------------------------------------------------------------------
(* Polling loops: claim C26 (under SpecLoopsFair) *)

\* C26: when every call returns and every timer fires, a pollAuthCompletion loop that runs
\* comes to an end (completed, failed, or past its cap), and so does the pollAuthStatus loop
\* of the popup (connected, or past its cap): neither keeps setting its timer for ever.
C26_LoopsEnd ==
    /\ \A r \in AuthIds :
            (auth[r].pc \in {"poll", "status", "wait"})
                ~> (auth[r].pc \in {"completed", "failed", "timedout"})
    /\ (popup.poll.pc \in {"wait", "check"}) ~> (popup.poll.pc \in {"connected", "timedout"})

\* C26's case: nobody confirmed in WhatsApp, and both loops ran up to their caps and stopped
C26_Witness ==
    /\ auth[1].pc = "timedout"
    /\ auth[1].attempts = MaxPollAttempts + 1
    /\ popup.poll.pc = "timedout"
    /\ popup.poll.attempts = MaxPopupAttempts + 1
    /\ popup.authBtn = 0

-----------------------------------------------------------------------------
(* End of the outbound flow: claim C27 (under SpecOutbound) *)

\* C27: the step in which the keydown handler forwards the send ends the flow: the synthetic
\* Enter of simulateEnterPress is not taken by the handler again, so after it no handler is
\* waiting and no second correctGrammar request has been sent for the keypress.
C27_ForwardEndsFlow ==
    [][(fw'.tick # fw.tick /\ fw'.by = "keydown") =>
            (kd'.pc = "idle" /\ gc'.pc \notin {"get", "fetch", "settled"})]_vars

-----------------------------------------------------------------------------
(* Edit distance: claim C28 (under SpecDistance) *)

\* the texts one insertion, deletion or replacement of a character away from s
Edits(s) ==
    {SubSeq(s, 1, i - 1) \o SubSeq(s, i + 1, Len(s)) : i \in 1..Len(s)}
        \cup {[s EXCEPT ![i] = c] : i \in 1..Len(s), c \in {"a", "b"}}
        \cup {SubSeq(s, 1, i) \o <<c>> \o SubSeq(s, i + 1, Len(s)) :
                    i \in 0..Len(s), c \in {"a", "b"}}

\* the number of rounds of single edits after which t is among the texts reached from S
RECURSIVE EditSteps(_, _, _)
EditSteps(S, t, k) ==
    IF t \in S THEN k
    ELSE EditSteps(S \cup UNION {Edits(s) : s \in S}, t, k + 1)

\* C28: the distance levenshteinDistance has computed for a pair of texts is the least number
\* of insertions, deletions and replacements of one character that turn the first text into
\* the second, empty texts included.
C28_DistanceIsEditDistance ==
    pv # PvNone =>
        /\ pv.distance = EditSteps({pv.original}, pv.corrected, 0)
        /\ pv.distance = EditDistance(pv.original, pv.corrected)

\* C28's case: a pair that needs a deletion and a replacement
C28_Witness ==
    /\ pv.original = <<"a", "b", "b">>
    /\ pv.corrected = <<"b", "a">>
    /\ pv.distance = 2

-----------------------------------------------------------------------------
(* Verification against a newer token: claim C29 (under SpecVerifyRace) *)

\* C29: when a failed verification makes getAuthStatus clear the stored authentication, the
\* token it clears is the token it verified: a token that pollAuthCompletion stored while
\* the verification was in flight is left, and authenticated with it.
C29_ClearsOnlyVerifiedToken ==
    [][(gs.pc = "verify" /\ gs'.pc = "done" /\ storage' # storage) =>
            (Has(storage, "authToken") /\ storage.authToken = gs.settings.authToken)]_vars

-----------------------------------------------------------------------------
(* Pending flag with several requests: claim C30 (under SpecReauth) *)

\* a pollAuthCompletion loop of request r is running: it has not come to completed, failed
\* or timed out
Polling(r) == auth[r].pc \in {"poll", "status", "wait"}

\* C30: while the loop of some request is running, the stored authPending flag is true; the
\* end of one request does not clear it under another.
C30_PendingWhilePolling ==
    (\E r \in AuthIds : Polling(r)) => TruthyBool(storage, "authPending")

-----------------------------------------------------------------------------
(* Triggers of init: claim C31 (under SpecPageInit) *)

\* a page of WhatsApp Web: the script is injected, its timer runs, the background reports the
\* tab complete and checks for auto mode, the script's listener handles what it is sent
NextPageInit ==
    \/ TabOpen
    \/ InitTimer
    \/ TabUpdated
    \/ CheckAutoAuthGet
    \/ CheckAutoAuthTimer
    \/ ContentOnMessage
    \/ ContentInitLoaded

SpecPageInit == InitAutoMode /\ [][NextPageInit]_vars

\* C31: the setup body of init (listeners, observers, control panel) has run at most once on
\* the page, whatever the order of the injection's call, the timer, tabReady and the load.
C31_SetupAtMostOnce == cs.setups <= 1

-----------------------------------------------------------------------------
(* Panel toggle and the stored settings: claim C32 (under SpecSave) *)

\* C32: a click on a checkbox of the control panel (the step in which that checkbox changes)
\* leaves every stored setting other than the toggled key at the value it had in storage:
\* what the popup or the background saved since the script read its settings is not
\* overwritten by the script's copy.
C32_ToggleKeepsOtherKeys ==
    [][\A key \in PanelToggles :
            (Has(cs.panel, key) /\ Has(cs'.panel, key) /\ cs'.panel[key] # cs.panel[key]) =>
                \A k \in DOMAIN storage \ {key} :
                    Has(storage', k) /\ storage'[k] = storage[k]]_vars

-----------------------------------------------------------------------------
(* Destination of an auto-reply: claim C33 (under SpecDispatch) *)

\* the inbound path on a page with two conversations: the user may open the other chat or
\* click the header's auto button while a reply is being generated
SpecDispatch == InitAutoMode /\ [][NextInbound \/ OpenChat("bob", TRUE)]_vars

\* C33: the callback of the generateAutoReply request hands a reply to sendAutoReply (which
\* puts it into the input field of the open chat) only in the chat whose incoming message
\* asked for it, and only while that contact is still in the auto-mode set.
C33_ReplyToEnrolledSender ==
    [][(ar.pc # "delay" /\ ar'.pc = "delay") =>
            (cs.contact = ar.contact /\ ar.contact \in cs.autoModeContacts)]_vars

====
